---------------------------- MODULE Spec2Model ----------------------------
(***************************************************************************)
(* Model of src/app.py, the Streamlit script of the Supply Chain Tariff    *)
(* Optimization dashboard.                                                 *)
(*                                                                         *)
(* Streamlit runs the whole script, top to bottom, once per user event (a  *)
(* widget change, a button click, a text commit).  What survives from one  *)
(* run to the next is st.session_state (opt_inputs, chat_history and the   *)
(* keyed widget values) and the values of the rendered widgets.  Every     *)
(* action below is one user event together with the complete script run it *)
(* triggers.                                                               *)
(***************************************************************************)
EXTENDS Integers, Sequences, FiniteSets

(***************************************************************************)
(* Bounds of the model.                                                    *)
(***************************************************************************)
\* script runs after the page load
MaxRuns == 3
\* import_value ranges over 0, the widget default and 1..MaxImportSteps steps
MaxImportSteps == 2
\* shipment_value ranges over 0..MaxShipmentSteps steps
MaxShipmentSteps == 1
\* a question is a text of 0..MaxQuestionLen characters
MaxQuestionLen == 1

(***************************************************************************)
(* Reference data (src/app.py:24-68).                                      *)
(***************************************************************************)
\* annex_tariffs.keys(), in insertion order (the order of the row loop)
annex_countries ==
  << "China", "Vietnam", "India", "Bangladesh", "Cambodia", "Malaysia",
     "Indonesia", "South Korea", "Mexico", "Taiwan", "Thailand",
     "European Union", "Canada", "Hong Kong" >>

annex_tariffs ==
  [ c \in { annex_countries[i] : i \in 1..Len(annex_countries) } |->
      CASE c = "China" -> 34
        [] c = "Vietnam" -> 46
        [] c = "India" -> 26
        [] c = "Bangladesh" -> 37
        [] c = "Cambodia" -> 49
        [] c = "Malaysia" -> 24
        [] c = "Indonesia" -> 32
        [] c = "South Korea" -> 25
        [] c = "Mexico" -> 10
        [] c = "Taiwan" -> 32
        [] c = "Thailand" -> 36
        [] c = "European Union" -> 20
        [] c = "Canada" -> 0
        [] c = "Hong Kong" -> 34 ]

\* products: category -> sorted(products[category]), the subcategory options
products ==
  [ c \in { "Apparel", "Electronics", "Furniture", "Steel/Aluminum",
            "Chemicals", "Automotive Parts", "Semiconductors", "Food",
            "Medicine", "Energy/Critical Minerals" } |->
      CASE c = "Apparel" -> << "Cotton/Natural", "Synthetic" >>
        [] c = "Electronics" -> << "Chips", "Consumer Devices", "EV Batteries" >>
        [] c = "Chemicals" -> << "Industrial Chemicals", "Plastics" >>
        [] c = "Automotive Parts" -> << "EV Components", "Traditional Components" >>
        [] OTHER -> << >> ]

excluded_categories ==
  { "Food", "Medicine", "Humanitarian Goods", "Steel/Aluminum",
    "Autos/Auto Parts", "Semiconductors", "Lumber", "Pharmaceuticals",
    "Energy/Critical Minerals", "Precious Metals" }

HighPairs ==
  { <<"China", "Apparel">>, <<"Vietnam", "Apparel">>,
    <<"Bangladesh", "Apparel">>, <<"India", "Apparel">>,
    <<"China", "Electronics">>, <<"South Korea", "Electronics">>,
    <<"Malaysia", "Electronics">>, <<"Taiwan", "Electronics">>,
    <<"China", "Furniture">>, <<"Vietnam", "Furniture">>,
    <<"China", "Steel/Aluminum">>, <<"South Korea", "Steel/Aluminum">>,
    <<"China", "Chemicals">>, <<"India", "Chemicals">>,
    <<"Mexico", "Automotive Parts">>, <<"China", "Automotive Parts">>,
    <<"South Korea", "Automotive Parts">>,
    <<"Taiwan", "Semiconductors">>, <<"South Korea", "Semiconductors">> }

MediumPairs ==
  { <<"Cambodia", "Apparel">>, <<"Indonesia", "Apparel">>,
    <<"Thailand", "Electronics">>, <<"Indonesia", "Electronics">>,
    <<"Malaysia", "Furniture">>, <<"Indonesia", "Furniture">>,
    <<"India", "Steel/Aluminum">>,
    <<"Malaysia", "Chemicals">>,
    <<"Thailand", "Automotive Parts">>,
    <<"Malaysia", "Semiconductors">>, <<"Singapore", "Semiconductors">> }

supply_strength_mapping ==
  [ p \in HighPairs \cup MediumPairs |->
      IF p \in HighPairs THEN "High" ELSE "Medium" ]

(***************************************************************************)
(* Functions (src/app.py:71-75).                                           *)
(***************************************************************************)
\* a faulty variant of get_tariff: an unknown country counts as duty free
get_tariff_default_zero(country) ==
  IF country \in DOMAIN annex_tariffs THEN annex_tariffs[country] ELSE 0

\* annex_tariffs.get(country, 10)
get_tariff(country) ==
  IF country \in DOMAIN annex_tariffs THEN annex_tariffs[country] ELSE 10

\* supply_strength_mapping.get((country, category), 'Low')
get_supply_strength(country, category) ==
  IF <<country, category>> \in DOMAIN supply_strength_mapping
    THEN supply_strength_mapping[<<country, category>>]
    ELSE "Low"

(***************************************************************************)
(* Python float arithmetic of line 142,                                    *)
(*     savings_amount = (savings_percentage / 100) * inputs["import_value"]*)
(* Both operands of "/" are ints, so "/" is true division: the IEEE-754     *)
(* binary64 number nearest to the exact quotient.  The product of that      *)
(* float and the int import value is the binary64 number nearest to the    *)
(* exact product.  Both round half to even.                                *)
(*                                                                         *)
(* A binary64 number x >= 0 is modelled as [mant, exp] with x = mant*2^exp,*)
(* mant an odd natural number below 2^53; zero is [mant |-> <<>>, exp |->  *)
(* 0].  Every binary64 number has exactly one such form.  A natural number *)
(* is a sequence of limbs in base 2^13, least significant first, without   *)
(* leading zero limbs.  The values of the model are far from the subnormal *)
(* and overflow ranges; small operands (divisors, factors) are below 2^17. *)
(***************************************************************************)
SigBits == 53

LimbBase == 2^13

FloatZero == [mant |-> << >>, exp |-> 0]

\* a without its most significant zero limbs
Trim(a) ==
  LET used == { i \in 1..Len(a) : a[i] # 0 }
  IN  IF used = {} THEN << >>
      ELSE SubSeq(a, 1, CHOOSE i \in used : \A j \in used : j <= i)

\* the natural number a + c, c a small int >= 0
RECURSIVE AddSmall(_, _)
AddSmall(a, c) ==
  IF c = 0 THEN a
  ELSE IF a = << >> THEN << c % LimbBase >> \o AddSmall(a, c \div LimbBase)
  ELSE << (a[1] + c) % LimbBase >> \o AddSmall(Tail(a), (a[1] + c) \div LimbBase)

\* the natural number a * k + carry, k a small int >= 0
RECURSIVE MulSmall(_, _, _)
MulSmall(a, k, carry) ==
  IF a = << >> THEN AddSmall(<< >>, carry)
  ELSE << (a[1] * k + carry) % LimbBase >>
         \o MulSmall(Tail(a), k, (a[1] * k + carry) \div LimbBase)

\* quotient (limbs not trimmed) and remainder of a by the small int d > 0
RECURSIVE DivSmall(_, _)
DivSmall(a, d) ==
  IF a = << >> THEN [quot |-> << >>, rem |-> 0]
  ELSE LET hi == DivSmall(Tail(a), d)
           t  == hi.rem * LimbBase + a[1]
       IN  [quot |-> << t \div d >> \o hi.quot, rem |-> t % d]

\* the number of binary digits of the small int n >= 1
SmallBitLen(n) == CHOOSE k \in 1..30 : 2^(k - 1) <= n /\ n < 2^k

\* the number of binary digits of the natural number a # 0
BitLen(a) == 13 * (Len(a) - 1) + SmallBitLen(a[Len(a)])

\* the form [mant, exp], mant odd, of the number a * 2^e: a binary64 when
\* mant is below 2^53
Canonical(a, e) ==
  IF a = << >> THEN FloatZero
  ELSE LET zl == (CHOOSE i \in 1..Len(a) : a[i] # 0 /\ \A j \in 1..(i - 1) : a[j] = 0) - 1
           a1 == SubSeq(a, zl + 1, Len(a))
           tz == CHOOSE k \in 0..12 : a1[1] % 2^(k + 1) = 2^k
       IN  [mant |-> Trim(DivSmall(a1, 2^tz).quot), exp |-> e + 13 * zl + tz]

\* the binary64 nearest to a * 2^e (plus, when sticky, a non-zero amount below
\* 2^e), ties to even; with sticky, a has at least SigBits + 1 binary digits
RoundToFloat(a, e, sticky) ==
  IF a = << >> THEN FloatZero
  ELSE IF BitLen(a) <= SigBits THEN Canonical(a, e)
  ELSE LET sh   == BitLen(a) - (SigBits + 1)
           ls   == sh \div 13
           dq   == DivSmall(SubSeq(a, ls + 1, Len(a)), 2^(sh % 13))
           \* SigBits significant digits and the digit after them
           m2   == Trim(dq.quot)
           rest == sticky \/ dq.rem # 0 \/ \E i \in 1..ls : a[i] # 0
           m    == Trim(DivSmall(m2, 2).quot)
           up   == m2[1] % 2 = 1 /\ (rest \/ m[1] % 2 = 1)
       IN  Canonical(IF up THEN AddSmall(m, 1) ELSE m, e + sh + 1)

Zeros6 == << 0, 0, 0, 0, 0, 0 >>

\* Python's n / d for ints n >= 0 and 0 < d < 2^17
FloatDiv(n, d) ==
  LET \* floor(n * 2^78 / d): at least 2^61 when n > 0
      dq == DivSmall(Zeros6 \o AddSmall(<< >>, n), d)
  IN  RoundToFloat(Trim(dq.quot), -78, dq.rem # 0)

\* Python's x * v for a float x >= 0 and an int 0 <= v < 2^17
FloatMulInt(x, v) == RoundToFloat(Trim(MulSmall(x.mant, v, 0)), x.exp, FALSE)

\* whether k * x = n in exact arithmetic, for a float x and ints 0 < k < 2^17,
\* n >= 0: both sides have the same odd mantissa and exponent
FloatTimesIs(x, k, n) ==
  Canonical(Trim(MulSmall(x.mant, k, 0)), x.exp) = Canonical(AddSmall(<< >>, n), 0)

(***************************************************************************)
(* State.                                                                  *)
(***************************************************************************)
VARIABLES
  category,        \* st.session_state["category"], the category selectbox
  subcategory,     \* the subcategory selectbox, "None" when it is not offered
  country,         \* st.session_state["country"]
  import_value,    \* st.session_state["import_value"]
  shipment_value,  \* st.session_state["shipment_value"]
  opt_inputs,      \* st.session_state.opt_inputs
  chat_history,    \* st.session_state.chat_history
  user_question,   \* the value of the question text_input
  api_key_input,   \* the value of the fallback API key text_input
  secret,          \* st.secrets: "absent" (KeyError) or the configured key
  button,          \* what st.button returned in the last run
  view,            \* what the Optimization Logic section rendered in the last run
  chat_message,    \* what the Vendor Discovery section rendered in the last run
  request,         \* what became of the advisory request of the last run
  runs,            \* observer: script runs since the page load
  submissions,     \* observer: questions the user has submitted
  requests_sent    \* observer: requests sent to the advisory endpoint

vars ==
  << category, subcategory, country, import_value, shipment_value, opt_inputs,
     chat_history, user_question, api_key_input, secret, button, view,
     chat_message, request, runs, submissions, requests_sent >>

(***************************************************************************)
(* Sidebar widgets (src/app.py:91-116).                                    *)
(***************************************************************************)
\* sorted(products.keys())
category_options ==
  << "Apparel", "Automotive Parts", "Chemicals", "Electronics",
     "Energy/Critical Minerals", "Food", "Furniture", "Medicine",
     "Semiconductors", "Steel/Aluminum" >>

\* sorted(list(annex_tariffs.keys()))
country_options ==
  << "Bangladesh", "Cambodia", "Canada", "China", "European Union",
     "Hong Kong", "India", "Indonesia", "Malaysia", "Mexico", "South Korea",
     "Taiwan", "Thailand", "Vietnam" >>

Range(s) == { s[i] : i \in 1..Len(s) }

\* annex_tariffs.values(), in the order of annex_countries
country_tariffs == [ i \in 1..Len(annex_countries) |-> annex_tariffs[annex_countries[i]] ]

\* number_input(..., min_value=0, step=1000, value=100000)
import_value_default == 100000

import_value_step == 1000

\* number_input(..., min_value=0, step=100)
shipment_value_step == 100

ImportValues ==
  {0, import_value_default} \cup { import_value_step * k : k \in 1..MaxImportSteps }

ShipmentValues == { shipment_value_step * k : k \in 0..MaxShipmentSteps }

\* the subcategory selectbox of a category: its first option, or None when
\* products[category] is empty and the selectbox is not rendered
subcategory_default(cat) ==
  IF products[cat] = << >> THEN "None" ELSE products[cat][1]

\* st.session_state.opt_inputs = {} (line 95)
empty_opt_inputs ==
  [ category |-> "", subcategory |-> "None", country |-> "", import_value |-> 0,
    shipment_value |-> 0, run_optimization |-> FALSE ]

\* the dict the Optimize button stores (lines 109-116)
button_opt_inputs(cat, sub, ctry, imp, ship) ==
  [ category |-> cat, subcategory |-> sub, country |-> ctry, import_value |-> imp,
    shipment_value |-> ship, run_optimization |-> TRUE ]

\* a faulty variant of sidebar_opt_inputs: the dict is stored in every run, not only
\* under the button
sidebar_opt_inputs_every_run(clicked, old, cat, sub, ctry, imp, ship) ==
  button_opt_inputs(cat, sub, ctry, imp, ship)

\* st.session_state.opt_inputs after the sidebar of a run: assigned only when
\* st.button returned True (line 108)
sidebar_opt_inputs(clicked, old, cat, sub, ctry, imp, ship) ==
  IF clicked THEN button_opt_inputs(cat, sub, ctry, imp, ship) ELSE old

(***************************************************************************)
(* Optimization Logic (src/app.py:119-186).                                *)
(***************************************************************************)
\* inputs["category"].split(' (')[0]: no key of products contains " (", so the
\* split yields the one-element list holding the whole name
clean_category(cat) == cat

\* a faulty variant of is_excluded: the list misses a category of the selectbox
is_excluded_short_list(cat) == cat \in excluded_categories \ {"Food"}

\* clean_category in excluded_categories (line 127)
is_excluded(cat) == cat \in excluded_categories

\* a faulty variant of skip_alternative: "<" for "<="
skip_alternative_lt(alt_country, current_country, savings_percentage) ==
  alt_country = current_country \/ savings_percentage < 0

\* the continue of the row loop (line 140)
skip_alternative(alt_country, current_country, savings_percentage) ==
  alt_country = current_country \/ savings_percentage <= 0

\* the largest tariff of the table, so the largest savings percentage of a row
max_tariff ==
  CHOOSE t \in Range(country_tariffs) : \A u \in Range(country_tariffs) : u <= t

\* (savings_percentage / 100) * inputs["import_value"] (line 142), tabulated for
\* the percentages and the import values of the model
savings_amounts ==
  [ p \in 0..max_tariff, v \in ImportValues |-> FloatMulInt(FloatDiv(p, 100), v) ]

savings_amount(savings_percentage, value) == savings_amounts[savings_percentage, value]

\* a faulty variant of strength_priority: the alphabetic order of the tier names
strength_priority_alphabetic(strength) ==
  CASE strength = "High" -> 1
    [] strength = "Low" -> 2
    [] strength = "Medium" -> 3

\* strength_priority (line 161)
strength_priority(strength) ==
  CASE strength = "High" -> 1
    [] strength = "Medium" -> 2
    [] strength = "Low" -> 3

\* lines 145-148
excluded_status(cat, alt_country, alt_tariff) ==
  IF is_excluded(cat) \/ (alt_country = "Canada" /\ alt_tariff = 0)
    THEN "Excluded" ELSE "Subject to Tariffs"

\* one appended row (lines 150-157) with its Priority column (line 162);
\* round(savings_percentage, 1) of an int is that int
output_row(alt_country, inputs) ==
  LET alt_tariff == get_tariff(alt_country)
      savings_percentage == get_tariff(inputs.country) - alt_tariff
      strength == get_supply_strength(alt_country, clean_category(inputs.category))
  IN  [ alternative_country |-> alt_country,
        new_tariff |-> alt_tariff,
        saving_pct |-> savings_percentage,
        estimated_annual_savings |-> savings_amount(savings_percentage, inputs.import_value),
        supply_strength |-> strength,
        tariff_status |-> excluded_status(clean_category(inputs.category), alt_country, alt_tariff),
        priority |-> strength_priority(strength) ]

\* the row loop (lines 136-157), in the order of annex_tariffs.keys()
output_rows(inputs) ==
  LET kept == SelectSeq(annex_countries,
                LAMBDA a : ~skip_alternative(a, inputs.country,
                              get_tariff(inputs.country) - get_tariff(a)))
  IN  [ i \in 1..Len(kept) |-> output_row(kept[i], inputs) ]

\* the sort key of sort_values(by=['Priority', 'Saving %'], ascending=[True, False])
row_before(a, b) ==
  a.priority < b.priority \/ (a.priority = b.priority /\ a.saving_pct > b.saving_pct)

\* sort_values is a stable sort: rows with equal keys keep the order of the loop
RECURSIVE sort_values(_, _)
sort_values(rows, n) ==
  IF n = 0 THEN << >>
  ELSE LET done == sort_values(rows, n - 1)
           k == Cardinality({ i \in 1..Len(done) : ~row_before(rows[n], done[i]) })
       IN  SubSeq(done, 1, k) \o << rows[n] >> \o SubSeq(done, k + 1, Len(done))

\* DataFrame.head(n)
head(df, n) == SubSeq(df, 1, IF Len(df) < n THEN Len(df) ELSE n)

\* a faulty variant of has_rows: the ranking is rendered without the test
has_rows_always(rows) == TRUE

\* if output_rows: (line 159)
has_rows(rows) == rows # << >>

nothing_rendered ==
  [ rendered |-> {}, result_df |-> << >>, top5_df |-> << >>, top_option |-> << >>,
    error |-> "none" ]

\* what one run of the section renders for st.session_state.opt_inputs = inputs
OptimizationLogic(inputs) ==
  IF ~inputs.run_optimization THEN nothing_rendered
  ELSE IF is_excluded(clean_category(inputs.category))
    THEN [ nothing_rendered EXCEPT !.rendered = {"current_tariff", "excluded_note"} ]
  ELSE LET rows == output_rows(inputs)
           result_df == sort_values(rows, Len(rows))
           top5_df == head(result_df, 5)
       IN  IF has_rows(rows)
             THEN IF rows = << >>
               \* pd.DataFrame([]) has no 'Supply Strength' column: line 162 raises
               THEN [ nothing_rendered EXCEPT !.rendered = {"current_tariff"},
                                              !.error = "KeyError" ]
               ELSE [ rendered |-> {"current_tariff", "recommendations_table",
                                    "download_button", "top5_chart", "best_option"},
                      result_df |-> result_df,
                      top5_df |-> top5_df,
                      top_option |-> << top5_df[1] >>,
                      error |-> "none" ]
             ELSE [ nothing_rendered EXCEPT
                      !.rendered = {"current_tariff", "no_better_warning"} ]

(***************************************************************************)
(* Vendor Discovery Section (src/app.py:194-231).                          *)
(***************************************************************************)
\* a text of k characters; the empty text is falsy
Text(k) == [ i \in 1..k |-> "a" ]

Questions == { Text(k) : k \in 0..MaxQuestionLen }

\* response['choices'][0]['message']['content']
Answers == { "advice" }

\* the key the fallback text_input can hold
ApiKeys == { "", "gsk" }

Secrets == { "absent" } \cup ApiKeys

\* whether the fallback key text_input is rendered (lines 203-206)
key_input_rendered(question, secret_key) ==
  question # << >> /\ secret_key = "absent"

\* groq_api_key (lines 203-206)
groq_api_key(secret_key, typed_key) ==
  IF secret_key = "absent" THEN typed_key ELSE secret_key

\* a faulty variant of save_to_history: the entry is saved whatever the outcome
save_to_history_always(history, question, outcome, answer) ==
  Append(history, [user |-> question, assistant |-> answer])

\* st.session_state.chat_history after the try block (lines 212-229)
save_to_history(history, question, outcome, answer) ==
  IF outcome = "ok" THEN Append(history, [user |-> question, assistant |-> answer])
  ELSE history

\* what the section shows for the outcome of the request
chat_rendering(outcome) ==
  CASE outcome = "ok" -> "answer"
    [] outcome = "exception" -> "error"
    [] outcome = "no_key" -> "key_warning"
    [] outcome = "none" -> "none"

(***************************************************************************)
(* One run of the script, for the widget values of the next state.         *)
(***************************************************************************)
ChatSection ==
  LET key == groq_api_key(secret, api_key_input')
  IN  IF user_question' = << >>
        THEN /\ request' = "none"
             /\ chat_history' = chat_history
             /\ chat_message' = chat_rendering("none")
             /\ requests_sent' = requests_sent
      ELSE IF key = ""
        THEN /\ request' = "no_key"
             /\ chat_history' = chat_history
             /\ chat_message' = chat_rendering("no_key")
             /\ requests_sent' = requests_sent
      ELSE \E outcome \in {"ok", "exception"}, answer \in Answers :
             /\ request' = outcome
             /\ chat_history' = save_to_history(chat_history, user_question', outcome, answer)
             /\ chat_message' = chat_rendering(outcome)
             /\ requests_sent' = requests_sent + 1

ScriptRun(clicked) ==
  /\ runs' = runs + 1
  /\ secret' = secret
  /\ button' = clicked
  /\ opt_inputs' = sidebar_opt_inputs(clicked, opt_inputs, category', subcategory',
                                      country', import_value', shipment_value')
  /\ view' = OptimizationLogic(opt_inputs')
  /\ ChatSection

\* a widget that is not rendered in a run loses its value
KeepKeyInput ==
  api_key_input' =
    IF key_input_rendered(user_question', secret) THEN api_key_input ELSE ""

(***************************************************************************)
(* User events.                                                            *)
(***************************************************************************)
SelectCategory(c) ==
  /\ runs < MaxRuns
  /\ c # category
  /\ category' = c
  /\ subcategory' = subcategory_default(c)
  /\ UNCHANGED << country, import_value, shipment_value, user_question, submissions >>
  /\ KeepKeyInput
  /\ ScriptRun(FALSE)

SelectSubcategory(s) ==
  /\ runs < MaxRuns
  /\ s # subcategory
  /\ subcategory' = s
  /\ UNCHANGED << category, country, import_value, shipment_value, user_question,
                  submissions >>
  /\ KeepKeyInput
  /\ ScriptRun(FALSE)

SelectCountry(c) ==
  /\ runs < MaxRuns
  /\ c # country
  /\ country' = c
  /\ UNCHANGED << category, subcategory, import_value, shipment_value, user_question,
                  submissions >>
  /\ KeepKeyInput
  /\ ScriptRun(FALSE)

SetImportValue(v) ==
  /\ runs < MaxRuns
  /\ v # import_value
  /\ import_value' = v
  /\ UNCHANGED << category, subcategory, country, shipment_value, user_question,
                  submissions >>
  /\ KeepKeyInput
  /\ ScriptRun(FALSE)

SetShipmentValue(v) ==
  /\ runs < MaxRuns
  /\ v # shipment_value
  /\ shipment_value' = v
  /\ UNCHANGED << category, subcategory, country, import_value, user_question,
                  submissions >>
  /\ KeepKeyInput
  /\ ScriptRun(FALSE)

ClickOptimize ==
  /\ runs < MaxRuns
  /\ UNCHANGED << category, subcategory, country, import_value, shipment_value,
                  user_question, submissions >>
  /\ KeepKeyInput
  /\ ScriptRun(TRUE)

\* the user commits a new text in the question input (an empty text clears it)
SubmitQuestion(q) ==
  /\ runs < MaxRuns
  /\ q # user_question
  /\ user_question' = q
  /\ submissions' = IF q # << >> THEN submissions + 1 ELSE submissions
  /\ UNCHANGED << category, subcategory, country, import_value, shipment_value >>
  /\ KeepKeyInput
  /\ ScriptRun(FALSE)

\* the user commits a text in the fallback key input of the last run
EnterApiKey(k) ==
  /\ runs < MaxRuns
  /\ key_input_rendered(user_question, secret)
  /\ k # api_key_input
  /\ api_key_input' = k
  /\ UNCHANGED << category, subcategory, country, import_value, shipment_value,
                  user_question, submissions >>
  /\ ScriptRun(FALSE)

(***************************************************************************)
(* The session: the page load, then any sequence of user events.           *)
(***************************************************************************)
Init ==
  /\ category = category_options[1]
  /\ subcategory = subcategory_default(category_options[1])
  /\ country = country_options[1]
  /\ import_value = import_value_default
  /\ shipment_value = 0
  /\ opt_inputs = empty_opt_inputs
  /\ chat_history = << >>
  /\ user_question = << >>
  /\ api_key_input = ""
  /\ secret \in Secrets
  /\ button = FALSE
  /\ view = OptimizationLogic(empty_opt_inputs)
  /\ chat_message = "none"
  /\ request = "none"
  /\ runs = 0
  /\ submissions = 0
  /\ requests_sent = 0

Next ==
  \/ \E c \in Range(category_options) : SelectCategory(c)
  \/ \E s \in Range(products[category]) : SelectSubcategory(s)
  \/ \E c \in Range(country_options) : SelectCountry(c)
  \/ \E v \in ImportValues : SetImportValue(v)
  \/ \E v \in ShipmentValues : SetShipmentValue(v)
  \/ ClickOptimize
  \/ \E q \in Questions : SubmitQuestion(q)
  \/ \E k \in ApiKeys : EnterApiKey(k)

Spec == Init /\ [][Next]_vars

(***************************************************************************)
(* The Optimization Logic as a function of its inputs: the sidebar holds   *)
(* any category, any current country (a listed one, or one the tariff      *)
(* table does not list) and any import and shipment value of the bounded   *)
(* sets, and the Optimize button is clicked.                               *)
(***************************************************************************)
UnlistedCountries == { "Singapore", "Japan" }

InitRecommend ==
  /\ category \in Range(category_options)
  /\ subcategory = subcategory_default(category)
  /\ country \in Range(country_options) \cup UnlistedCountries
  /\ import_value \in ImportValues
  /\ shipment_value \in ShipmentValues
  /\ opt_inputs = empty_opt_inputs
  /\ chat_history = << >>
  /\ user_question = << >>
  /\ api_key_input = ""
  /\ secret = "absent"
  /\ button = FALSE
  /\ view = OptimizationLogic(empty_opt_inputs)
  /\ chat_message = "none"
  /\ request = "none"
  /\ runs = 0
  /\ submissions = 0
  /\ requests_sent = 0

NextRecommend == ClickOptimize

SpecRecommend == InitRecommend /\ [][NextRecommend]_vars

(***************************************************************************)
(* Properties.                                                             *)
(***************************************************************************)
\* the last run ranked alternatives: opt_inputs holds a click and its
\* category is not excluded
Ranked ==
  opt_inputs.run_optimization /\ opt_inputs.category \notin excluded_categories

ShownCountries ==
  { view.result_df[i].alternative_country : i \in 1..Len(view.result_df) }

\* the countries of the tariff table with a strictly lower tariff than c
CheaperThan(c) ==
  { a \in DOMAIN annex_tariffs : a # c /\ get_tariff(c) - get_tariff(a) > 0 }

RankingElements ==
  { "recommendations_table", "download_button", "top5_chart", "best_option" }

\* C1: for a non-excluded category, any current country c and any import
\* value, the alternative countries of the rows are exactly the countries of
\* the tariff table other than c whose tariff is strictly lower than c's, each
\* in exactly one row.
C1_AlternativesExact ==
  Ranked =>
    /\ ShownCountries = CheaperThan(opt_inputs.country)
    /\ Len(view.result_df) = Cardinality(ShownCountries)
    /\ opt_inputs.country \notin ShownCountries
    /\ \A i \in 1..Len(view.result_df) : view.result_df[i].saving_pct > 0

\* C1 witness: a run for China, whose tariff Hong Kong shares: eight of the
\* thirteen other countries are rows
C1_Witness ==
  /\ Ranked
  /\ opt_inputs.country = "China"
  /\ Len(view.result_df) = 8
  /\ "Hong Kong" \notin ShownCountries

\* the rank table of the specification: High = 1 < Medium = 2 < Low = 3
TierRank(strength) ==
  CASE strength = "High" -> 1
    [] strength = "Medium" -> 2
    [] strength = "Low" -> 3

\* the position of country a in the ranked list
PositionOf(a) ==
  CHOOSE i \in 1..Len(view.result_df) : view.result_df[i].alternative_country = a

\* C2: adjacent rows of the ranked list are ordered by tier rank and, within a
\* rank, by descending saving; for China/Apparel, India (High, 8) precedes
\* Canada (Low, 34), which precedes Mexico (Low, 24); the top-5 view is the
\* first five rows and the best option is the first row.
C2_RankedOrder ==
  LET df == view.result_df
  IN  /\ \A i \in 1..(Len(df) - 1) :
           \/ TierRank(df[i].supply_strength) < TierRank(df[i + 1].supply_strength)
           \/ /\ TierRank(df[i].supply_strength) = TierRank(df[i + 1].supply_strength)
              /\ df[i].saving_pct >= df[i + 1].saving_pct
      /\ Len(view.top5_df) = (IF Len(df) < 5 THEN Len(df) ELSE 5)
      /\ \A i \in 1..Len(view.top5_df) : view.top5_df[i] = df[i]
      /\ (df # << >> => view.top_option = << df[1] >>)
      /\ (Ranked /\ opt_inputs.country = "China" /\ opt_inputs.category = "Apparel") =>
           /\ PositionOf("India") < PositionOf("Canada")
           /\ PositionOf("Canada") < PositionOf("Mexico")
           /\ df[PositionOf("India")].supply_strength = "High"
           /\ df[PositionOf("India")].saving_pct = 8
           /\ df[PositionOf("Canada")].supply_strength = "Low"
           /\ df[PositionOf("Canada")].saving_pct = 34
           /\ df[PositionOf("Mexico")].supply_strength = "Low"
           /\ df[PositionOf("Mexico")].saving_pct = 24

\* C2 witness: the China/Apparel ranking, with all three tiers and more than
\* five rows, so the top-5 view cuts the list
C2_Witness ==
  /\ Ranked
  /\ opt_inputs.country = "China"
  /\ opt_inputs.category = "Apparel"
  /\ Len(view.result_df) > 5
  /\ Len(view.top5_df) = 5
  /\ { view.result_df[i].supply_strength : i \in 1..Len(view.result_df) }
       = {"High", "Medium", "Low"}

\* C3: for every row, saving_pct = tariff_of(current) - tariff_of(alternative)
\* and 100 * estimated_annual_savings = saving_pct * annual_import_value
\* exactly; with an import value of 0 every amount is 0.
C3_SavingsExact ==
  Ranked =>
    \A i \in 1..Len(view.result_df) :
      LET r == view.result_df[i]
      IN  /\ r.saving_pct = get_tariff(opt_inputs.country) - get_tariff(r.alternative_country)
          /\ FloatTimesIs(r.estimated_annual_savings, 100,
                          r.saving_pct * opt_inputs.import_value)
          /\ (opt_inputs.import_value = 0 => r.estimated_annual_savings = FloatZero)

\* C4: get_tariff is 10 for every country outside the tariff table and
\* get_supply_strength is Low for every pair outside the supply-strength
\* table; a run whose current country is outside the tariff table raises no
\* error and its rows are exactly the listed countries with a tariff below 10,
\* each with the saving 10 - tariff.
C4_LookupDefaults ==
  /\ \A c \in UnlistedCountries : get_tariff(c) = 10
  /\ \A c \in Range(country_options) \cup UnlistedCountries :
       \A g \in Range(category_options) \cup excluded_categories :
         <<c, g>> \notin HighPairs \cup MediumPairs => get_supply_strength(c, g) = "Low"
  /\ (Ranked /\ opt_inputs.country \notin DOMAIN annex_tariffs) =>
       /\ view.error = "none"
       /\ ShownCountries = { a \in DOMAIN annex_tariffs : annex_tariffs[a] < 10 }
       /\ \A i \in 1..Len(view.result_df) :
            /\ view.result_df[i].saving_pct = 10 - view.result_df[i].new_tariff
            /\ view.result_df[i].alternative_country # opt_inputs.country

\* C4 witness: a run for a country the tariff table does not list; Canada is
\* the one country with a tariff below 10
C4_Witness ==
  /\ Ranked
  /\ opt_inputs.country \in UnlistedCountries
  /\ ShownCountries = {"Canada"}
  /\ view.result_df[1].saving_pct = 10

\* C5: when no listed country has a strictly lower tariff than the current
\* one, the run shows the "no better alternative" message and nothing of the
\* ranking: no rows, no table, chart, export or top pick, and no error.
C5_NoBetterOption ==
  (Ranked /\ CheaperThan(opt_inputs.country) = {}) =>
    /\ view.result_df = << >>
    /\ view.top5_df = << >>
    /\ view.top_option = << >>
    /\ "no_better_warning" \in view.rendered
    /\ view.rendered \cap RankingElements = {}
    /\ view.error = "none"

\* C5 witness: a run for Canada, whose tariff is the minimum of the table
C5_Witness ==
  /\ Ranked
  /\ opt_inputs.country = "Canada"
  /\ "no_better_warning" \in view.rendered

\* C6: a run for an excluded category shows the advisory note and no ranking
\* (no row, table, chart, export, top pick or "no better" message), for any
\* country and import value; a ranking is rendered or rows are computed only
\* for a category that is not excluded.
C6_ExcludedShortCircuit ==
  /\ (opt_inputs.run_optimization /\ opt_inputs.category \in excluded_categories) =>
       /\ "excluded_note" \in view.rendered
       /\ view.rendered \cap (RankingElements \cup {"no_better_warning"}) = {}
       /\ view.result_df = << >>
       /\ view.top_option = << >>
  /\ ( \/ view.rendered \cap (RankingElements \cup {"no_better_warning"}) # {}
       \/ view.result_df # << >> ) =>
       /\ opt_inputs.run_optimization
       /\ opt_inputs.category \notin excluded_categories
       /\ "excluded_note" \notin view.rendered

\* C6 witness: a run for Food from China with a positive import value
C6_Witness ==
  /\ opt_inputs.run_optimization
  /\ opt_inputs.category = "Food"
  /\ opt_inputs.country = "China"
  /\ opt_inputs.import_value > 0
  /\ "excluded_note" \in view.rendered

\* C7: a request that fails (an exception, a missing or empty key) shows an
\* error or a warning and leaves chat_history as it was; a request that
\* succeeds appends exactly one {user, assistant} entry at the end; no step
\* removes, reorders or rewrites an entry.
C7_HistoryAppendOnly ==
  [][ /\ request' = "exception" => (chat_history' = chat_history /\ chat_message' = "error")
      /\ request' = "no_key" => (chat_history' = chat_history /\ chat_message' = "key_warning")
      /\ request' = "none" => chat_history' = chat_history
      /\ request' = "ok" =>
           /\ Len(chat_history') = Len(chat_history) + 1
           /\ chat_history'[Len(chat_history')].user = user_question'
           /\ chat_history'[Len(chat_history')].assistant \in Answers
      /\ Len(chat_history') >= Len(chat_history)
      /\ \A i \in 1..Len(chat_history) : chat_history'[i] = chat_history[i]
    ]_vars

\* C7 witness: a request fails with an exception while the log holds an entry
C7_Witness ==
  /\ request = "exception"
  /\ chat_message = "error"
  /\ Len(chat_history) = 1

\* C8: the requests sent to the advisory endpoint, and the entries appended to
\* the conversation log, never outnumber the questions the user submitted.
C8_OneRequestPerSubmission ==
  /\ requests_sent <= submissions
  /\ Len(chat_history) <= submissions

\* C9: a run with a supplied shipment value below 800 and a current country
\* among the low-cost hubs (China is one under any reading) shows the
\* small-shipment warning.
C9_SmallShipmentWarning ==
  ( /\ opt_inputs.run_optimization
    /\ opt_inputs.shipment_value > 0
    /\ opt_inputs.shipment_value < 800
    /\ opt_inputs.country = "China" ) =>
    "small_shipment_warning" \in view.rendered

\* C10: before the first click nothing of the ranking is rendered; every run
\* renders what the Optimization Logic computes from opt_inputs, the values of
\* the last click; run_optimization, once true, stays true; opt_inputs changes
\* only in a run whose button returned True, and then holds the widget values
\* of that run.
C10_SnapshotOnClick ==
  /\ [](~opt_inputs.run_optimization => (opt_inputs = empty_opt_inputs /\ view.rendered = {}))
  /\ [](view = OptimizationLogic(opt_inputs))
  /\ [][ /\ opt_inputs.run_optimization => opt_inputs'.run_optimization
         /\ opt_inputs' # opt_inputs => button'
         /\ button' => opt_inputs' = button_opt_inputs(category', subcategory', country',
                                                       import_value', shipment_value')
       ]_vars

\* C10 witness: after a click for one country the sidebar selects another, and
\* the run that follows still renders the ranking of the clicked one
C10_Witness ==
  /\ ~button
  /\ opt_inputs.run_optimization
  /\ opt_inputs.country # country
  /\ "recommendations_table" \in view.rendered
  /\ ShownCountries = CheaperThan(opt_inputs.country)
  /\ ShownCountries # CheaperThan(country)

=============================================================================
